---- MODULE Spec2Model ----
(***************************************************************************)
(* SkyCast (vincentspereira/studio): the location-resolution and weather-  *)
(* synthesis pipeline.                                                     *)
(*                                                                         *)
(*   services/weather.ts   geocodeCity, reverseGeocode,                    *)
(*                         fetchOpenWeatherDataBundle                      *)
(*   app/page.tsx          SkyCastPage: the orchestrating React component  *)
(*                         (the version with the disambiguation and        *)
(*                         refinement dialogs)                             *)
(*   LocationInput.tsx, ForecastDisplay.tsx: where the intents come from   *)
(*                                                                         *)
(* Conventions.                                                            *)
(*  - A JavaScript string is a sequence of one-character strings, so that  *)
(*    toLowerCase, toUpperCase, trim, split and join are computed.         *)
(*    undefined and "" are both <<>>: the code only ever tests such        *)
(*    values for truthiness.  IANA timezone ids and message tags are       *)
(*    never taken apart and stay TLA+ strings.                             *)
(*  - A nullable useState value is <<>> (null) or <<v>>.                   *)
(*  - A Date is an instant counted in whole hours since an epoch that is   *)
(*    midnight UTC, on the first Sunday of November.  A timezone is a      *)
(*    whole-hour offset; the zones of the registry keep theirs throughout  *)
(*    the modelled period, the zone of the browser may still be on summer  *)
(*    time at its beginning.                                               *)
(*  - A latitude or longitude is an integer number of 1/10000 degrees.     *)
(*  - An await is a record in `pending`; the code before the first await   *)
(*    and the code after each await are one atomic step each (React        *)
(*    batches the setState calls of one step).                             *)
(*  - The random, purely cosmetic fields of a bundle (temperatures,        *)
(*    condition labels, humidity, wind, precipitation, sunrise, sunset)    *)
(*    and the time label of an hourly record, which repeats its dateTime,  *)
(*    are not part of the orchestrator's model state.  What the claims     *)
(*    about the services need of them is computed where the services are   *)
(*    called on their own (ServiceSpec).                                   *)
(***************************************************************************)
EXTENDS Integers, Sequences, FiniteSets, TLC

(***************************************************************************)
(* Bounds of the model                                                     *)
(***************************************************************************)
\* how many location intents the user issues after the mount
MaxIntents == 2
\* how many hours the clock advances
MaxTicks == 1

(***************************************************************************)
(* Nullable values                                                         *)
(***************************************************************************)
Null == <<>>
Some(v) == <<v>>
Val(o) == o[1]

(***************************************************************************)
(* Strings                                                                 *)
(***************************************************************************)
Undefined == <<>>

UpperChars == <<"A","B","C","D","E","F","G","H","I","J","K","L","M",
                "N","O","P","Q","R","S","T","U","V","W","X","Y","Z">>
LowerChars == <<"a","b","c","d","e","f","g","h","i","j","k","l","m",
                "n","o","p","q","r","s","t","u","v","w","x","y","z">>

LowerChar(c) ==
  IF \E i \in DOMAIN UpperChars : UpperChars[i] = c
  THEN LowerChars[CHOOSE i \in DOMAIN UpperChars : UpperChars[i] = c]
  ELSE c

UpperChar(c) ==
  IF \E i \in DOMAIN LowerChars : LowerChars[i] = c
  THEN UpperChars[CHOOSE i \in DOMAIN LowerChars : LowerChars[i] = c]
  ELSE c

toLowerCase(s) == [i \in 1..Len(s) |-> LowerChar(s[i])]
toUpperCase(s) == [i \in 1..Len(s) |-> UpperChar(s[i])]

\* String.prototype.trim
trim(s) ==
  IF \A i \in 1..Len(s) : s[i] = " " THEN <<>>
  ELSE LET a == CHOOSE i \in 1..Len(s) : s[i] # " " /\ \A j \in 1..(i-1) : s[j] = " "
           b == CHOOSE i \in 1..Len(s) : s[i] # " " /\ \A j \in (i+1)..Len(s) : s[j] = " "
       IN SubSeq(s, a, b)

\* str.split(' ')
RECURSIVE split(_)
split(s) ==
  IF \A i \in 1..Len(s) : s[i] # " " THEN <<s>>
  ELSE LET k == CHOOSE i \in 1..Len(s) : s[i] = " " /\ \A j \in 1..(i-1) : s[j] # " "
       IN <<SubSeq(s, 1, k-1)>> \o split(SubSeq(s, k+1, Len(s)))

\* words.join(' ')
RECURSIVE join(_)
join(ws) ==
  IF Len(ws) = 0 THEN <<>>
  ELSE IF Len(ws) = 1 THEN ws[1]
  ELSE ws[1] \o <<" ">> \o join(Tail(ws))

\* the callback of toTitleCase's map
TitleWord(word) ==
  IF Len(word) = 0 THEN <<>>
  ELSE IF Len(word) <= 2 /\ word = toUpperCase(word) THEN word
  ELSE <<UpperChar(word[1])>> \o SubSeq(word, 2, Len(word))

toTitleCase(str) ==
  IF str = Undefined THEN Undefined
  ELSE LET ws == split(toLowerCase(str))
       IN join([i \in 1..Len(ws) |-> TitleWord(ws[i])])

\* the strings of the program and of the inputs
sLondon == <<"L","o","n","d","o","n">>
sParis == <<"P","a","r","i","s">>
sTokyo == <<"T","o","k","y","o">>
sNewYork == <<"N","e","w"," ","Y","o","r","k">>
sSpringfield == <<"S","p","r","i","n","g","f","i","e","l","d">>
sEngland == <<"E","n","g","l","a","n","d">>
\* the source's state of Paris starts with a non-ASCII letter, written I here
sIleDeFrance == <<"I","l","e","-","d","e","-","F","r","a","n","c","e">>
sUnknown == <<"U","n","k","n","o","w","n">>
sUnknownLocation == sUnknown \o <<" ","L","o","c","a","t","i","o","n">>
sCurrent == <<"C","u","r","r","e","n","t">>
sCurrentLocation == sCurrent \o <<" ","L","o","c","a","t","i","o","n">>
sCurrentState == sCurrent \o <<" ","S","t","a","t","e">>
sCurrentCountry == sCurrent \o <<" ","C","o","u","n","t","r","y">>
\* a city the registry does not know, as a user might type it
sYork == <<"y","o","r","k">>

(***************************************************************************)
(* The place registry                                                      *)
(***************************************************************************)
CoordScale == 10000

GeocodedLocation(name, lat, lng, country, state, timezone) ==
  [name |-> name, city |-> name, lat |-> lat, lng |-> lng,
   country |-> country, state |-> state, timezone |-> timezone]

\* the keys in insertion order (the order of for...in)
MOCK_LOCATIONS_KEYS == <<toLowerCase(sNewYork), toLowerCase(sTokyo), toLowerCase(sParis)>>

MOCK_LOCATIONS ==
  (toLowerCase(sNewYork) :>
     GeocodedLocation(sNewYork, 407128, -740060, <<"U","S">>, <<"N","Y">>, "America/New_York"))
  @@ (toLowerCase(sTokyo) :>
     GeocodedLocation(sTokyo, 356895, 1396917, <<"J","P">>, sTokyo, "Asia/Tokyo"))
  @@ (toLowerCase(sParis) :>
     GeocodedLocation(sParis, 488566, 23522, <<"F","R">>, sIleDeFrance, "Europe/Paris"))

MOCK_LOCATIONS_MULTI_KEYS == <<toLowerCase(sLondon), toLowerCase(sSpringfield)>>

MOCK_LOCATIONS_MULTI ==
  (toLowerCase(sLondon) :>
     << GeocodedLocation(sLondon, 515074, 1278, <<"G","B">>, sEngland, "Europe/London"),
        GeocodedLocation(sLondon, 429849, -812453, <<"C","A">>, <<"O","N">>, "America/Toronto"),
        GeocodedLocation(sLondon, 371280, -840833, <<"U","S">>, <<"K","Y">>, "America/New_York") >>)
  @@ (toLowerCase(sSpringfield) :>
     << GeocodedLocation(sSpringfield, 397817, -896501, <<"U","S">>, <<"I","L">>, "America/Chicago"),
        GeocodedLocation(sSpringfield, 372153, -932982, <<"U","S">>, <<"M","O">>, "America/Chicago"),
        GeocodedLocation(sSpringfield, 421015, -725898, <<"U","S">>, <<"M","A">>, "America/New_York") >>)

\* a variant with a country (C13 rules it out)
DEFAULT_LOCATION_BASE_US ==
  [country |-> <<"U","S">>, state |-> Undefined, timezone |-> "America/Los_Angeles"]

DEFAULT_LOCATION_BASE ==
  [country |-> Undefined, state |-> Undefined, timezone |-> "America/Los_Angeles"]

(***************************************************************************)
(* geocodeCity and reverseGeocode                                          *)
(***************************************************************************)
TextQuery(text) == [kind |-> "text", city |-> text, state |-> Undefined, country |-> Undefined]
StructuredQuery(city, state, country) ==
  [kind |-> "structured", city |-> city, state |-> state, country |-> country]

processMockResult(loc) ==
  [loc EXCEPT !.name = IF toTitleCase(loc.city) # Undefined
                       THEN toTitleCase(loc.city) ELSE sUnknown,
              !.state = toTitleCase(loc.state),
              !.country = IF loc.country # Undefined
                          THEN toUpperCase(loc.country) ELSE Undefined]

\* the branch of geocodeCity for a structured query
geocodeStructured(query) ==
  LET lcCity == toLowerCase(query.city)
      lcState == toLowerCase(query.state)
      lcCountry == toLowerCase(query.country)
      allPossibleLocations ==
        (IF lcCity \in DOMAIN MOCK_LOCATIONS_MULTI THEN MOCK_LOCATIONS_MULTI[lcCity] ELSE <<>>)
        \o (IF lcCity \in DOMAIN MOCK_LOCATIONS THEN <<MOCK_LOCATIONS[lcCity]>> ELSE <<>>)
      \* the callback of Array.prototype.filter
      Match(loc) ==
        /\ (lcState = Undefined \/ toLowerCase(loc.state) = lcState)
        /\ (lcCountry = Undefined \/ toLowerCase(loc.country) = lcCountry)
      filtered == SelectSeq(allPossibleLocations, Match)
      results == [i \in 1..Len(filtered) |-> processMockResult(filtered[i])]
  IN IF Len(results) = 0 /\ Len(allPossibleLocations) = 1
        /\ lcState = Undefined /\ lcCountry = Undefined
     THEN [i \in 1..Len(allPossibleLocations) |-> processMockResult(allPossibleLocations[i])]
     ELSE results

\* a variant that looks the typed text up as it is (C14 rules it out)
geocodeTextCaseSensitive(inputCityName, random) ==
  IF inputCityName \in DOMAIN MOCK_LOCATIONS_MULTI
  THEN LET m == MOCK_LOCATIONS_MULTI[inputCityName]
       IN [i \in 1..Len(m) |-> processMockResult(m[i])]
  ELSE <<>>

\* the branch of geocodeCity for a text query; random is the coordinate that
\* the two Math.random() calls of the generic fallback draw
geocodeText(inputCityName, random) ==
  LET normalizedInputCityName == toLowerCase(inputCityName)
  IN IF normalizedInputCityName \in DOMAIN MOCK_LOCATIONS_MULTI
     THEN LET m == MOCK_LOCATIONS_MULTI[normalizedInputCityName]
          IN [i \in 1..Len(m) |-> processMockResult(m[i])]
     ELSE IF normalizedInputCityName \in DOMAIN MOCK_LOCATIONS
     THEN <<processMockResult(MOCK_LOCATIONS[normalizedInputCityName])>>
     ELSE IF toLowerCase(inputCityName) = toLowerCase(sUnknown) \/ trim(inputCityName) = <<>>
     THEN <<>>
     ELSE LET title == IF toTitleCase(inputCityName) # Undefined
                       THEN toTitleCase(inputCityName) ELSE sUnknownLocation
          IN << [name |-> title, city |-> title, lat |-> random.lat, lng |-> random.lng,
                 country |-> DEFAULT_LOCATION_BASE.country,
                 state |-> DEFAULT_LOCATION_BASE.state,
                 timezone |-> DEFAULT_LOCATION_BASE.timezone] >>

geocodeCity(query, random) ==
  IF query.kind = "structured" THEN geocodeStructured(query)
  ELSE geocodeText(query.city, random)

Abs(x) == IF x < 0 THEN -x ELSE x

\* every entry of MOCK_LOCATIONS_MULTI in the order the two nested loops visit them
RECURSIVE Flatten(_)
Flatten(keys) ==
  IF keys = <<>> THEN <<>> ELSE MOCK_LOCATIONS_MULTI[Head(keys)] \o Flatten(Tail(keys))

\* a variant that takes the first ambiguous city within ten degrees (C15 rules
\* it out)
reverseGeocodeCoarse(coords) ==
  LET multi == Flatten(MOCK_LOCATIONS_MULTI_KEYS)
      NearMulti(loc) == /\ Abs(loc.lat - coords.lat) < 10 * CoordScale
                        /\ Abs(loc.lng - coords.lng) < 10 * CoordScale
  IN IF SelectSeq(multi, NearMulti) # <<>>
     THEN processMockResult(Head(SelectSeq(multi, NearMulti)))
     ELSE [name |-> sCurrentLocation, city |-> sCurrentLocation,
           lat |-> coords.lat, lng |-> coords.lng,
           state |-> toTitleCase(sCurrentState),
           country |-> toUpperCase(sCurrentCountry),
           timezone |-> "America/Los_Angeles"]

reverseGeocode(coords) ==
  LET multi == Flatten(MOCK_LOCATIONS_MULTI_KEYS)
      NearMulti(loc) == /\ 10 * Abs(loc.lat - coords.lat) < CoordScale
                        /\ 10 * Abs(loc.lng - coords.lng) < CoordScale
      single == [i \in 1..Len(MOCK_LOCATIONS_KEYS) |-> MOCK_LOCATIONS[MOCK_LOCATIONS_KEYS[i]]]
      NearSingle(loc) == /\ Abs(loc.lat - coords.lat) < CoordScale
                         /\ Abs(loc.lng - coords.lng) < CoordScale
  IN IF SelectSeq(multi, NearMulti) # <<>>
     THEN processMockResult(Head(SelectSeq(multi, NearMulti)))
     ELSE IF SelectSeq(single, NearSingle) # <<>>
     THEN processMockResult(Head(SelectSeq(single, NearSingle)))
     ELSE [name |-> sCurrentLocation, city |-> sCurrentLocation,
           lat |-> coords.lat, lng |-> coords.lng,
           state |-> toTitleCase(sCurrentState),
           country |-> toUpperCase(sCurrentCountry),
           timezone |-> "America/Los_Angeles"]

(***************************************************************************)
(* The state of SkyCastPage and of its environment                         *)
(***************************************************************************)
VARIABLES
  \* useState of SkyCastPage
  activeDisplayLocation, currentWeather, dailyForecasts, rawHourlyForecasts,
  loading, error,
  selectedDayForecast, selectedDateForHourly, displayableHourlyForecasts,
  loadingHourly, errorHourly,
  locationOptions, cityForDialog,
  refineDialogOpen, cityToRefine, fallbackLocationForRefine,
  \* the awaits and browser callbacks that are outstanding
  pending,
  \* the environment: the clock, the timezone of the browser, whether
  \* navigator.geolocation exists, whether the mount effect has run
  now, ticks, systemTz, geolocation, mounted,
  \* history: the number of location intents since the initial state, the
  \* intent that produced the active dataset, and what the last step did
  lastIntent, activeIntent, event,
  \* a call of a function of services/weather.ts, or of a handler, made on its
  \* own: its arguments and what it returned
  call

weatherVars == <<activeDisplayLocation, currentWeather, dailyForecasts, rawHourlyForecasts>>
hourlyVars == <<selectedDayForecast, selectedDateForHourly, displayableHourlyForecasts,
                loadingHourly, errorHourly>>
dialogVars == <<locationOptions, cityForDialog, refineDialogOpen, cityToRefine,
                fallbackLocationForRefine>>
envVars == <<now, ticks, systemTz, geolocation, mounted>>
serviceVars == <<call>>
vars == <<weatherVars, loading, error, hourlyVars, dialogVars, pending, envVars,
          lastIntent, activeIntent, event, serviceVars>>

(***************************************************************************)
(* Dates and timezones                                                     *)
(***************************************************************************)
\* the UTC offset of an IANA zone in hours (standard time)
TzOffsets ==
  "UTC" :> 0 @@ "Europe/London" :> 0 @@ "Europe/Paris" :> 1 @@ "Asia/Tokyo" :> 9
    @@ "America/New_York" :> -5 @@ "America/Toronto" :> -5
    @@ "America/Chicago" :> -6 @@ "America/Los_Angeles" :> -8
    @@ "America/Anchorage" :> -9
TzOffset(tz) == TzOffsets[tz]

\* the zones that are still on summer time when the modelled period begins:
\* Alaska sets its clocks back at 10:00 UTC of the first day
SummerTime == "America/Anchorage" :> [until |-> 10, offset |-> -8]
\* the UTC offset of the zone at instant t
OffsetAt(tz, t) ==
  IF tz \in DOMAIN SummerTime /\ t < SummerTime[tz].until
  THEN SummerTime[tz].offset ELSE TzOffset(tz)

LocalDay(t, tz) == (t + TzOffset(tz)) \div 24
LocalHour(t, tz) == (t + TzOffset(tz)) % 24
FromLocal(day, hour, offset) == day * 24 + hour - offset

\* Date.prototype getters and setters: they read the browser's timezone.  The
\* calendar day (year, month, day of month) is one day number.
getDate(t) == (t + OffsetAt(systemTz, t)) \div 24
getHours(t) == (t + OffsetAt(systemTz, t)) % 24
toDateString(t) == getDate(t)
\* the instant of a local time of the browser (ECMAScript's UTC(t)): a local
\* time that the change of offset skips or repeats is read with the offset
\* before the change
utc(local) ==
  IF systemTz \notin DOMAIN SummerTime THEN local - TzOffset(systemTz)
  ELSE IF local - SummerTime[systemTz].offset < SummerTime[systemTz].until
  THEN local - SummerTime[systemTz].offset
  ELSE IF local - TzOffset(systemTz) >= SummerTime[systemTz].until
  THEN local - TzOffset(systemTz)
  ELSE local - SummerTime[systemTz].offset
setDate(t, day) == utc(day * 24 + getHours(t))
setHours(t, hour) == utc(getDate(t) * 24 + hour)

\* formatInTimeZone(t, tz, "yyyy-MM-dd"), (t, tz, "HH") and
\* (t, tz, "yyyy-MM-dd HH:mm:ssXXX")
formatDate(t, tz) == LocalDay(t, tz)
formatHour(t, tz) == LocalHour(t, tz)
formatWithOffset(t, tz) == [date |-> LocalDay(t, tz), hour |-> LocalHour(t, tz),
                            offset |-> TzOffset(tz)]
\* new Date(text) of a text that ends in a UTC offset: the offset is honoured
parseDate(text) == FromLocal(text.date, text.hour, text.offset)

(***************************************************************************)
(* fetchOpenWeatherDataBundle                                              *)
(***************************************************************************)
NUM_DAYS_FORECAST == 10

\* the bundle built once reverseGeocode has answered geoInfo, today and
\* firstHourDate being new Date() at that moment
bundleFor(coords, geoInfo, today, firstHourDate) ==
  LET daily == [i \in 1..NUM_DAYS_FORECAST |->
                  [date |-> setDate(today, getDate(today) + (i - 1))]]
      TOTAL_HOURS_FORECAST == NUM_DAYS_FORECAST * 24
      \* of an HourlyForecast the model keeps dateTime; its time label is
      \* formatHour(dateTime, timezone)
      HourlyAt(firstHour, i) ==
        LET hourDateTime == setHours(firstHourDate, firstHour + (i - 1))
        IN [dateTime |-> hourDateTime]
      hourly == [i \in 1..TOTAL_HOURS_FORECAST |-> HourlyAt(getHours(firstHourDate), i)]
  IN [current |-> [timezone |-> geoInfo.timezone], daily |-> daily, hourly |-> hourly,
      timezone |-> geoInfo.timezone, lat |-> coords.lat, lng |-> coords.lng,
      locationName |-> geoInfo.name, county |-> geoInfo.state, country |-> geoInfo.country]

fetchOpenWeatherDataBundle(coords) == bundleFor(coords, reverseGeocode(coords), now, now)

(***************************************************************************)
(* The inputs                                                              *)
(***************************************************************************)
\* what the user types into LocationInput
Cities == {sLondon, toLowerCase(sParis), sYork, sUnknown}
\* what the user types into the refinement dialog
RefineDetails ==
  { StructuredQuery(sLondon, <<"O","N">>, Undefined),
    StructuredQuery(sLondon, Undefined, Undefined),
    StructuredQuery(sYork, <<"u","k">>, Undefined) }
\* where the browser says the user is: near Tokyo, and nowhere near the registry
Positions == { [lat |-> 356000, lng |-> 1397000], [lat |-> 0, lng |-> 0] }
\* the coordinates the generic geocoding fallback may draw: nowhere near the
\* registry, and within 0.1 degrees of London, England
RandomCoords == { [lat |-> 123456, lng |-> -654321], [lat |-> 515000, lng |-> 1000] }
\* the cards the user clicks: today's, tomorrow's and the last one
ClickedDays == {1, 2, NUM_DAYS_FORECAST}
\* GeolocationPositionError.code: PERMISSION_DENIED, POSITION_UNAVAILABLE
ErrorCodes == {1, 2}
\* the timezone of the browser.  Europe/London has the same offset, every
\* other zone of the registry a different one.
SystemTimezones == {"UTC"}
\* the instant at which the page is opened: 23:00 UTC of day 1, which is 08:00
\* of day 2 in Tokyo and 15:00 of day 1 in Los Angeles; one hour later the day
\* changes in UTC
StartInstants == {47}

\* no function is being called on its own
NoCall == [fn |-> "none"]

(***************************************************************************)
(* Initial state: the first render                                         *)
(***************************************************************************)
Init ==
  /\ activeDisplayLocation = Null /\ currentWeather = Null
  /\ dailyForecasts = Null /\ rawHourlyForecasts = Null
  /\ loading = TRUE /\ error = Null
  /\ selectedDayForecast = Null /\ selectedDateForHourly = Null
  /\ displayableHourlyForecasts = Null
  /\ loadingHourly = FALSE /\ errorHourly = Null
  /\ locationOptions = Null /\ cityForDialog = <<>>
  /\ refineDialogOpen = FALSE /\ cityToRefine = Null /\ fallbackLocationForRefine = Null
  /\ pending = {}
  /\ now \in StartInstants /\ ticks = 0
  /\ systemTz \in SystemTimezones
  /\ geolocation \in BOOLEAN
  /\ mounted = FALSE
  /\ lastIntent = 0 /\ activeIntent = 0
  /\ event = [name |-> "render"]
  /\ call = NoCall

(***************************************************************************)
(* Pieces of the handlers                                                  *)
(***************************************************************************)
\* a || b on strings
Or(a, b) == IF a # Undefined THEN a ELSE b

\* "a dataset is Ready": what the page shows as the weather
Ready ==
  /\ ~loading /\ activeDisplayLocation # Null
  /\ currentWeather # Null /\ dailyForecasts # Null

\* the arguments of the six calls of fetchWeatherData
SingleResultArgs(singleResult) ==
  [coords |-> [lat |-> singleResult.lat, lng |-> singleResult.lng],
   name |-> singleResult.name, county |-> singleResult.state, country |-> singleResult.country]
\* a variant that passes the country as the region (C9 tells the two apart)
SelectedLocationArgsCountryAsRegion(selectedLocation) ==
  [coords |-> [lat |-> selectedLocation.lat, lng |-> selectedLocation.lng],
   name |-> selectedLocation.name, county |-> selectedLocation.country,
   country |-> selectedLocation.country]
SelectedLocationArgs(selectedLocation) ==
  [coords |-> [lat |-> selectedLocation.lat, lng |-> selectedLocation.lng],
   name |-> selectedLocation.name, county |-> selectedLocation.state,
   country |-> selectedLocation.country]
\* a variant that swaps the coordinates (C7 tells the two apart)
RefinedLocArgsSwapped(refinedLoc) ==
  [coords |-> [lat |-> refinedLoc.lng, lng |-> refinedLoc.lat],
   name |-> refinedLoc.name, county |-> refinedLoc.state, country |-> refinedLoc.country]
RefinedLocArgs(refinedLoc) ==
  [coords |-> [lat |-> refinedLoc.lat, lng |-> refinedLoc.lng],
   name |-> refinedLoc.name, county |-> refinedLoc.state, country |-> refinedLoc.country]
\* a variant that keeps the fallback candidate's names (C6 tells the two apart)
ProvidedDetailsArgsFallbackNames(details, fallback) ==
  [coords |-> [lat |-> fallback.lat, lng |-> fallback.lng],
   name |-> fallback.name, county |-> fallback.state, country |-> fallback.country]
ProvidedDetailsArgs(details, fallback) ==
  [coords |-> [lat |-> fallback.lat, lng |-> fallback.lng],
   name |-> details.city, county |-> details.state, country |-> details.country]
\* a variant that passes no name (C8 tells the two apart)
FallbackArgsUnnamed(fallback) ==
  [coords |-> [lat |-> fallback.lat, lng |-> fallback.lng],
   name |-> Undefined, county |-> fallback.state, country |-> fallback.country]
FallbackArgs(fallback) ==
  [coords |-> [lat |-> fallback.lat, lng |-> fallback.lng],
   name |-> fallback.name, county |-> fallback.state, country |-> fallback.country]
PositionArgs(position) ==
  [coords |-> [lat |-> position.lat, lng |-> position.lng],
   name |-> sCurrentLocation, county |-> Undefined, country |-> Undefined]

\* the await of fetchOpenWeatherDataBundle inside fetchWeatherData; via and ref
\* are history: the call site and the candidate or typed details it came from
FetchOp(args, intent, via, ref) ==
  [kind |-> "fetch", coords |-> args.coords, name |-> args.name,
   county |-> args.county, country |-> args.country,
   intent |-> intent, via |-> via, ref |-> ref]

\* fetchWeatherData up to its await.  It leaves activeDisplayLocation and error
\* as they are.
fetchWeatherDataStart ==
  /\ loading' = TRUE
  /\ currentWeather' = Null /\ dailyForecasts' = Null /\ rawHourlyForecasts' = Null
  /\ displayableHourlyForecasts' = Null
  /\ selectedDayForecast' = Null /\ selectedDateForHourly' = Null
  /\ errorHourly' = Null
  /\ UNCHANGED loadingHourly

\* clearWeatherData, for the two variables fetchWeatherDataStart leaves alone
\* when error is set to e afterwards (Null when it is not set again)
clearActiveAndError(e) ==
  /\ activeDisplayLocation' = Null /\ activeIntent' = 0
  /\ error' = e

\* setLoading(true); clearWeatherData()
loadingAndClearWeatherData ==
  /\ fetchWeatherDataStart
  /\ clearActiveAndError(Null)

\* the DisplayLocationData fetchWeatherData builds from the bundle
displayLocation(bundle, name, county, country) ==
  [lat |-> bundle.lat, lng |-> bundle.lng,
   name |-> Or(name, Or(bundle.locationName, sUnknownLocation)),
   county |-> Or(county, bundle.county),
   country |-> Or(country, bundle.country),
   timezone |-> bundle.timezone]

(***************************************************************************)
(* fetchWeatherData after its await                                        *)
(***************************************************************************)
FetchResolved(op) ==
  /\ op \in pending /\ op.kind = "fetch"
  /\ LET bundle == fetchOpenWeatherDataBundle(op.coords)
     IN /\ activeDisplayLocation' = Some(displayLocation(bundle, op.name, op.county, op.country))
        /\ currentWeather' = Some(bundle.current)
        /\ dailyForecasts' = Some(bundle.daily)
        /\ rawHourlyForecasts' = Some(bundle.hourly)
  /\ error' = Null
  /\ loading' = FALSE
  /\ activeIntent' = op.intent
  /\ pending' = pending \ {op}
  /\ event' = [name |-> "fetchResolved", op |-> op, toasts |-> <<"Weather Updated">>]
  /\ UNCHANGED <<hourlyVars, dialogVars, envVars, serviceVars, lastIntent>>

\* the catch: setError(...) and then clearWeatherData(), which sets error to null
FetchRejected(op) ==
  /\ op \in pending /\ op.kind = "fetch"
  /\ activeDisplayLocation' = Null /\ currentWeather' = Null
  /\ dailyForecasts' = Null /\ rawHourlyForecasts' = Null
  /\ displayableHourlyForecasts' = Null
  /\ selectedDayForecast' = Null /\ selectedDateForHourly' = Null
  /\ error' = Null /\ errorHourly' = Null
  /\ loading' = FALSE
  /\ activeIntent' = 0
  /\ pending' = pending \ {op}
  /\ event' = [name |-> "fetchRejected", op |-> op, toasts |-> <<"Error">>]
  /\ UNCHANGED <<loadingHourly, dialogVars, envVars, serviceVars, lastIntent>>

(***************************************************************************)
(* handleGeolocate                                                         *)
(***************************************************************************)
\* handleCitySubmit up to its await
handleCitySubmitStart(city, intent) ==
  /\ loadingAndClearWeatherData
  /\ cityForDialog' = city
  /\ UNCHANGED <<locationOptions, refineDialogOpen, cityToRefine, fallbackLocationForRefine>>

GeocodeOp(handler, query, fallback, intent) ==
  [kind |-> "geocode", handler |-> handler, query |-> query,
   fallbackLocationForRefine |-> fallback, intent |-> intent]

\* the body of handleGeolocate, up to getCurrentPosition.  The error callback
\* closes over the activeDisplayLocation of the render that made the handler.
handleGeolocate ==
  /\ lastIntent' = lastIntent + 1
  /\ IF ~geolocation
     THEN /\ error' = Some("Geolocation is not supported by your browser.")
          /\ event' = [name |-> "handleGeolocate", supported |-> FALSE, ready |-> Ready,
                       fallback |-> FALSE, toasts |-> <<"Geolocation Error">>]
          /\ UNCHANGED <<weatherVars, loading, hourlyVars, dialogVars, pending, activeIntent>>
     ELSE /\ loadingAndClearWeatherData
          /\ locationOptions' = Null
          /\ pending' = pending \cup
               {[kind |-> "geolocation", activeDisplayLocation |-> activeDisplayLocation,
                 intent |-> lastIntent + 1]}
          /\ event' = [name |-> "handleGeolocate", supported |-> TRUE, ready |-> Ready,
                       fallback |-> FALSE, toasts |-> <<>>]
          /\ UNCHANGED <<cityForDialog, refineDialogOpen, cityToRefine,
                         fallbackLocationForRefine>>

\* useEffect(() => { handleGeolocate(); }, [])
Mount ==
  /\ ~mounted
  /\ mounted' = TRUE
  /\ handleGeolocate
  /\ UNCHANGED <<now, ticks, systemTz, geolocation, serviceVars>>

\* the button "Use My Current Location" of LocationInput (disabled while loading)
Geolocate ==
  /\ mounted /\ ~loading /\ lastIntent <= MaxIntents
  /\ handleGeolocate
  /\ UNCHANGED <<envVars, serviceVars>>

\* the success callback of getCurrentPosition
GeolocationSuccess(op, position) ==
  /\ op \in pending /\ op.kind = "geolocation"
  /\ fetchWeatherDataStart
  /\ pending' = (pending \ {op}) \cup
       {FetchOp(PositionArgs(position), op.intent, "position", position)}
  /\ event' = [name |-> "geolocationSuccess", toasts |-> <<>>]
  /\ UNCHANGED <<activeDisplayLocation, activeIntent, error, dialogVars, envVars, serviceVars, lastIntent>>

\* the error callback of getCurrentPosition
GeolocationError(op, code) ==
  /\ op \in pending /\ op.kind = "geolocation"
  /\ IF op.activeDisplayLocation = Null
     THEN \* setLoading(false); setError(...); then handleCitySubmit("London")
          /\ handleCitySubmitStart(sLondon, op.intent)
          /\ pending' = (pending \ {op}) \cup
               {GeocodeOp("handleCitySubmit", TextQuery(sLondon), Null, op.intent)}
          /\ event' = [name |-> "geolocationError", code |-> code, ready |-> Ready,
                       fallback |-> TRUE,
                       toasts |-> <<IF code = 1 THEN "Location Access Denied"
                                    ELSE "Geolocation Error", "Loading Default Location">>]
     ELSE /\ loading' = FALSE
          /\ error' = Some("Geolocation error")
          /\ pending' = pending \ {op}
          /\ event' = [name |-> "geolocationError", code |-> code, ready |-> Ready,
                       fallback |-> FALSE,
                       toasts |-> <<IF code = 1 THEN "Location Access Denied"
                                    ELSE "Geolocation Error">>]
          /\ UNCHANGED <<weatherVars, activeIntent, hourlyVars, dialogVars>>
  /\ UNCHANGED <<envVars, serviceVars, lastIntent>>

(***************************************************************************)
(* handleCitySubmit                                                        *)
(***************************************************************************)
\* the form of LocationInput (disabled while loading; it trims the text and
\* does not submit an empty one)
CitySubmit(city) ==
  /\ mounted /\ ~loading /\ lastIntent <= MaxIntents
  /\ trim(city) # <<>>
  /\ lastIntent' = lastIntent + 1
  /\ handleCitySubmitStart(trim(city), lastIntent + 1)
  /\ pending' = pending \cup
       {GeocodeOp("handleCitySubmit", TextQuery(trim(city)), Null, lastIntent + 1)}
  /\ event' = [name |-> "handleCitySubmit", city |-> trim(city), toasts |-> <<>>]
  /\ UNCHANGED <<envVars, serviceVars>>

\* a variant that shows the list for a single candidate too (C10 rules it out)
AnyResults(geocodedResults) == Len(geocodedResults) > 0

\* more than one candidate: the candidate list is shown
MultipleResults(geocodedResults) == Len(geocodedResults) > 1

\* a variant that asks for a refinement of every single candidate (C12 rules it
\* out)
isAmbiguousAnySingle(singleResult) == singleResult = singleResult

\* const isAmbiguous = ...
isAmbiguous(singleResult) ==
  /\ (singleResult.state = Undefined \/ singleResult.country = Undefined)
  /\ toLowerCase(singleResult.city) \notin
       {toLowerCase(sLondon), toLowerCase(sParis), toLowerCase(sTokyo), toLowerCase(sNewYork)}

\* handleCitySubmit after await geocodeCity(city)
GeocodeResolved(op, random) ==
  /\ op \in pending /\ op.kind = "geocode" /\ op.handler = "handleCitySubmit"
  /\ LET city == op.query.city
         geocodedResults == geocodeCity(op.query, random)
     IN IF MultipleResults(geocodedResults)
        THEN /\ locationOptions' = Some(geocodedResults)
             /\ loading' = FALSE
             /\ pending' = pending \ {op}
             /\ event' = [name |-> "geocodeResolved", op |-> op, results |-> geocodedResults,
                          toasts |-> <<"Multiple Locations Found">>]
             /\ UNCHANGED <<weatherVars, activeIntent, error, hourlyVars, cityForDialog,
                            refineDialogOpen, cityToRefine, fallbackLocationForRefine>>
        ELSE IF Len(geocodedResults) = 1
        THEN LET singleResult == geocodedResults[1]
             IN IF isAmbiguous(singleResult)
                THEN /\ cityToRefine' = Some(city)
                     /\ fallbackLocationForRefine' = Some(singleResult)
                     /\ refineDialogOpen' = TRUE
                     /\ loading' = FALSE
                     /\ pending' = pending \ {op}
                     /\ event' = [name |-> "geocodeResolved", op |-> op,
                                  results |-> geocodedResults,
                                  toasts |-> <<"Location May Be Ambiguous">>]
                     /\ UNCHANGED <<weatherVars, activeIntent, error, hourlyVars,
                                    locationOptions, cityForDialog>>
                ELSE /\ locationOptions' = Null
                     /\ fetchWeatherDataStart
                     /\ pending' = (pending \ {op}) \cup
                          {FetchOp(SingleResultArgs(singleResult), op.intent,
                                   "single", singleResult)}
                     /\ event' = [name |-> "geocodeResolved", op |-> op,
                                  results |-> geocodedResults, toasts |-> <<>>]
                     /\ UNCHANGED <<activeDisplayLocation, activeIntent, error, cityForDialog,
                                    refineDialogOpen, cityToRefine, fallbackLocationForRefine>>
        ELSE /\ error' = Some("Could not find location data")
             /\ locationOptions' = Null
             /\ loading' = FALSE
             /\ pending' = pending \ {op}
             /\ event' = [name |-> "geocodeResolved", op |-> op, results |-> geocodedResults,
                          toasts |-> <<"Location Not Found">>]
             /\ UNCHANGED <<weatherVars, activeIntent, hourlyVars, cityForDialog,
                            refineDialogOpen, cityToRefine, fallbackLocationForRefine>>
  /\ UNCHANGED <<envVars, serviceVars, lastIntent>>

\* the catch of handleCitySubmit
GeocodeRejected(op) ==
  /\ op \in pending /\ op.kind = "geocode" /\ op.handler = "handleCitySubmit"
  /\ error' = Some("Geocoding error")
  /\ locationOptions' = Null
  /\ loading' = FALSE
  /\ pending' = pending \ {op}
  /\ event' = [name |-> "geocodeRejected", op |-> op, toasts |-> <<"Geocoding Error">>]
  /\ UNCHANGED <<weatherVars, activeIntent, hourlyVars, cityForDialog, refineDialogOpen,
                 cityToRefine, fallbackLocationForRefine, envVars, serviceVars, lastIntent>>

(***************************************************************************)
(* The candidate list (LocationSelectorDialog)                             *)
(***************************************************************************)
\* the dialog is rendered while locationOptions && locationOptions.length > 0
SelectorShown == locationOptions # Null /\ Len(Val(locationOptions)) > 0

handleLocationSelection(selectedLocation) ==
  /\ mounted /\ SelectorShown /\ lastIntent <= MaxIntents
  /\ \E k \in 1..Len(Val(locationOptions)) : selectedLocation = Val(locationOptions)[k]
  /\ lastIntent' = lastIntent + 1
  /\ locationOptions' = Null
  /\ loadingAndClearWeatherData
  /\ pending' = pending \cup
       {FetchOp(SelectedLocationArgs(selectedLocation), lastIntent + 1,
                "selection", selectedLocation)}
  /\ event' = [name |-> "handleLocationSelection", selectedLocation |-> selectedLocation,
               toasts |-> <<>>]
  /\ UNCHANGED <<cityForDialog, refineDialogOpen, cityToRefine, fallbackLocationForRefine,
                 envVars, serviceVars>>

\* onClose of the dialog
SelectorClose ==
  /\ mounted /\ SelectorShown
  /\ locationOptions' = Null
  /\ event' = [name |-> "selectorClose", toasts |-> <<>>]
  /\ UNCHANGED <<weatherVars, loading, error, hourlyVars, cityForDialog, refineDialogOpen,
                 cityToRefine, fallbackLocationForRefine, pending, envVars, serviceVars,
                 lastIntent, activeIntent>>

(***************************************************************************)
(* The refinement dialog (RefineLocationDialog)                            *)
(***************************************************************************)
\* the dialog is rendered while cityToRefine is truthy, and open while
\* refineDialogOpen
RefineShown == cityToRefine # Null /\ Val(cityToRefine) # <<>> /\ refineDialogOpen

\* handleRefineLocationSubmit up to its await.  What follows the await reads
\* the fallbackLocationForRefine of the render that made the handler.
handleRefineLocationSubmit(details) ==
  /\ mounted /\ RefineShown /\ lastIntent <= MaxIntents
  /\ lastIntent' = lastIntent + 1
  /\ refineDialogOpen' = FALSE
  /\ loadingAndClearWeatherData
  /\ pending' = pending \cup
       {GeocodeOp("handleRefineLocationSubmit", details, fallbackLocationForRefine,
                  lastIntent + 1)}
  /\ event' = [name |-> "handleRefineLocationSubmit", details |-> details,
               fallback |-> fallbackLocationForRefine, toasts |-> <<>>]
  /\ UNCHANGED <<locationOptions, cityForDialog, cityToRefine, fallbackLocationForRefine,
                 envVars, serviceVars>>

\* handleRefineLocationSubmit after await geocodeCity(details), with its finally
RefineResolved(op, random) ==
  /\ op \in pending /\ op.kind = "geocode" /\ op.handler = "handleRefineLocationSubmit"
  /\ LET details == op.query
         fallback == op.fallbackLocationForRefine
         refinedResults == geocodeCity(details, random)
     IN IF Len(refinedResults) = 1
        THEN /\ fetchWeatherDataStart
             /\ pending' = (pending \ {op}) \cup
                  {FetchOp(RefinedLocArgs(refinedResults[1]), op.intent,
                           "refined", refinedResults[1])}
             /\ event' = [name |-> "refineResolved", op |-> op, results |-> refinedResults,
                          toasts |-> <<"Location Refined">>]
             /\ UNCHANGED <<activeDisplayLocation, activeIntent, error, locationOptions,
                            cityForDialog>>
        ELSE IF MultipleResults(refinedResults)
        THEN /\ cityForDialog' = details.city
             /\ locationOptions' = Some(refinedResults)
             /\ loading' = FALSE
             /\ pending' = pending \ {op}
             /\ event' = [name |-> "refineResolved", op |-> op, results |-> refinedResults,
                          toasts |-> <<"Multiple Locations Found">>]
             /\ UNCHANGED <<weatherVars, activeIntent, error, hourlyVars>>
        ELSE IF fallback # Null
        THEN /\ fetchWeatherDataStart
             /\ pending' = (pending \ {op}) \cup
                  {FetchOp(ProvidedDetailsArgs(details, Val(fallback)), op.intent,
                           "provided", [details |-> details, fallback |-> Val(fallback)])}
             /\ event' = [name |-> "refineResolved", op |-> op, results |-> refinedResults,
                          toasts |-> <<"Using Provided Details">>]
             /\ UNCHANGED <<activeDisplayLocation, activeIntent, error, locationOptions,
                            cityForDialog>>
        ELSE /\ error' = Some("Could not find location data and no fallback coordinates")
             /\ loading' = FALSE
             /\ pending' = pending \ {op}
             /\ event' = [name |-> "refineResolved", op |-> op, results |-> refinedResults,
                          toasts |-> <<"Using Provided Details">>]
             /\ UNCHANGED <<weatherVars, activeIntent, hourlyVars, locationOptions,
                            cityForDialog>>
  /\ cityToRefine' = Null
  /\ fallbackLocationForRefine' = Null
  /\ UNCHANGED <<refineDialogOpen, envVars, serviceVars, lastIntent>>

\* the catch of handleRefineLocationSubmit, with its finally
RefineRejected(op) ==
  /\ op \in pending /\ op.kind = "geocode" /\ op.handler = "handleRefineLocationSubmit"
  /\ error' = Some("Refined geocoding error")
  /\ LET fallback == op.fallbackLocationForRefine
     IN IF fallback # Null
        THEN /\ fetchWeatherDataStart
             /\ pending' = (pending \ {op}) \cup
                  {FetchOp(FallbackArgs(Val(fallback)), op.intent, "fallback", Val(fallback))}
             /\ UNCHANGED <<activeDisplayLocation, activeIntent>>
        ELSE /\ loading' = FALSE
             /\ pending' = pending \ {op}
             /\ UNCHANGED <<weatherVars, activeIntent, hourlyVars>>
  /\ cityToRefine' = Null
  /\ fallbackLocationForRefine' = Null
  /\ event' = [name |-> "refineRejected", op |-> op, toasts |-> <<"Refined Geocoding Error">>]
  /\ UNCHANGED <<locationOptions, cityForDialog, refineDialogOpen, envVars, serviceVars, lastIntent>>

handleSkipRefinement ==
  /\ mounted /\ RefineShown /\ lastIntent <= MaxIntents
  /\ lastIntent' = lastIntent + 1
  /\ refineDialogOpen' = FALSE
  /\ IF fallbackLocationForRefine # Null
     THEN /\ loadingAndClearWeatherData
          /\ pending' = pending \cup
               {FetchOp(FallbackArgs(Val(fallbackLocationForRefine)), lastIntent + 1,
                        "skip", Val(fallbackLocationForRefine))}
          /\ event' = [name |-> "handleSkipRefinement", fallback |-> fallbackLocationForRefine,
                       toasts |-> <<"Using General Information">>]
     ELSE /\ event' = [name |-> "handleSkipRefinement", fallback |-> fallbackLocationForRefine,
                       toasts |-> <<>>]
          /\ UNCHANGED <<weatherVars, activeIntent, loading, error, hourlyVars, pending>>
  /\ cityToRefine' = Null
  /\ fallbackLocationForRefine' = Null
  /\ UNCHANGED <<locationOptions, cityForDialog, envVars, serviceVars>>

\* onClose of the dialog
RefineClose ==
  /\ mounted /\ RefineShown
  /\ refineDialogOpen' = FALSE
  /\ cityToRefine' = Null
  /\ fallbackLocationForRefine' = Null
  /\ event' = [name |-> "refineClose", toasts |-> <<>>]
  /\ UNCHANGED <<weatherVars, loading, error, hourlyVars, locationOptions, cityForDialog,
                 pending, envVars, serviceVars, lastIntent, activeIntent>>

(***************************************************************************)
(* handleDayCardClick                                                      *)
(***************************************************************************)
\* the three const of the try block
nowInLocationTimezone(locationTimezone) ==
  parseDate(formatWithOffset(now, locationTimezone))
currentHourInLocationTimezone(locationTimezone) ==
  getHours(nowInLocationTimezone(locationTimezone))
isTodayInLocationTimezone(locationTimezone, dateClicked) ==
  toDateString(nowInLocationTimezone(locationTimezone)) = toDateString(dateClicked)

\* rawHourlyForecasts.filter(...), given the two const computed before it
filteredHourly(hourlyForecasts, locationTimezone, dateClicked, currentHour, isToday) ==
  LET clickedDateStrInLocationTz == formatDate(dateClicked, locationTimezone)
      Keep(hourly) ==
        LET forecastDateStrInLocationTz == formatDate(hourly.dateTime, locationTimezone)
        IN IF forecastDateStrInLocationTz # clickedDateStrInLocationTz THEN FALSE
           ELSE IF isToday
           THEN formatHour(hourly.dateTime, locationTimezone) >= currentHour + 1
           ELSE TRUE
  IN SelectSeq(hourlyForecasts, Keep)

\* ForecastDisplay is rendered, with one card per daily forecast
CardsShown == Ready

\* a variant that answers a click by clearing the page as clearWeatherData does
\* (C23 rules it out)
handleDayCardClickClearing(dayForecast, dateClicked) ==
  /\ selectedDayForecast' = Some(dayForecast)
  /\ selectedDateForHourly' = Some(dateClicked)
  /\ loadingHourly' = FALSE
  /\ displayableHourlyForecasts' = Null
  /\ errorHourly' = Some("Hourly forecast data or location timezone is not available.")
  /\ activeDisplayLocation' = Null /\ currentWeather' = Null
  /\ dailyForecasts' = Null /\ rawHourlyForecasts' = Null
  /\ error' = Null /\ activeIntent' = 0
  /\ event' = [name |-> "handleDayCardClick", branch |-> "unavailable",
               dayForecast |-> dayForecast, dateClicked |-> dateClicked,
               toasts |-> <<"Error">>]
  /\ UNCHANGED <<loading, dialogVars, pending, envVars, serviceVars, lastIntent>>

handleDayCardClick(dayForecast, dateClicked) ==
  /\ IF selectedDateForHourly # Null
        /\ toDateString(Val(selectedDateForHourly)) = toDateString(dateClicked)
     THEN /\ selectedDayForecast' = Null
          /\ selectedDateForHourly' = Null
          /\ displayableHourlyForecasts' = Null
          /\ errorHourly' = Null
          /\ event' = [name |-> "handleDayCardClick", branch |-> "deselect",
                       toasts |-> <<>>]
          /\ UNCHANGED loadingHourly
     ELSE /\ selectedDayForecast' = Some(dayForecast)
          /\ selectedDateForHourly' = Some(dateClicked)
          /\ loadingHourly' = FALSE
          /\ IF rawHourlyForecasts = Null \/ activeDisplayLocation = Null
             THEN /\ displayableHourlyForecasts' = Null
                  /\ errorHourly' = Some("Hourly forecast data or location timezone is not available.")
                  /\ event' = [name |-> "handleDayCardClick", branch |-> "unavailable",
                               dayForecast |-> dayForecast, dateClicked |-> dateClicked,
                               toasts |-> <<"Error">>]
             ELSE LET locationTimezone == Val(activeDisplayLocation).timezone
                      currentHour == currentHourInLocationTimezone(locationTimezone)
                      isToday == isTodayInLocationTimezone(locationTimezone, dateClicked)
                  IN /\ displayableHourlyForecasts' =
                          Some(filteredHourly(Val(rawHourlyForecasts), locationTimezone,
                                              dateClicked, currentHour, isToday))
                     /\ errorHourly' = Null
                     /\ event' = [name |-> "handleDayCardClick", branch |-> "filter",
                                  dayForecast |-> dayForecast, dateClicked |-> dateClicked,
                                  isToday |-> isToday, toasts |-> <<>>]
  /\ UNCHANGED <<weatherVars, loading, error, dialogVars, pending, envVars, serviceVars,
                 lastIntent, activeIntent>>

\* a click on the card of dailyForecasts[index]: ForecastDisplay passes the
\* forecast and its date
DayCardClick(index) ==
  /\ mounted /\ CardsShown
  /\ index \in 1..Len(Val(dailyForecasts))
  /\ handleDayCardClick(Val(dailyForecasts)[index], Val(dailyForecasts)[index].date)

\* onClose of HourlyForecastDisplay
HourlyClose ==
  /\ mounted /\ ~loadingHourly
  /\ displayableHourlyForecasts # Null
  /\ selectedDayForecast # Null /\ selectedDateForHourly # Null
  /\ displayableHourlyForecasts' = Null
  /\ selectedDayForecast' = Null
  /\ selectedDateForHourly' = Null
  /\ event' = [name |-> "hourlyClose", toasts |-> <<>>]
  /\ UNCHANGED <<weatherVars, loading, error, loadingHourly, errorHourly, dialogVars,
                 pending, envVars, serviceVars, lastIntent, activeIntent>>

(***************************************************************************)
(* The clock                                                               *)
(***************************************************************************)
Tick ==
  /\ ticks < MaxTicks
  /\ now' = now + 1 /\ ticks' = ticks + 1
  /\ event' = [name |-> "tick"]
  /\ UNCHANGED <<weatherVars, loading, error, hourlyVars, dialogVars, pending,
                 systemTz, geolocation, mounted, lastIntent, activeIntent, serviceVars>>

Next ==
  \/ Mount
  \/ Geolocate
  \/ \E op \in pending, position \in Positions : GeolocationSuccess(op, position)
  \/ \E op \in pending, code \in ErrorCodes : GeolocationError(op, code)
  \/ \E op \in pending : FetchResolved(op)
  \/ \E op \in pending : FetchRejected(op)
  \/ \E city \in Cities : CitySubmit(city)
  \/ \E op \in pending, random \in RandomCoords : GeocodeResolved(op, random)
  \/ \E op \in pending : GeocodeRejected(op)
  \/ \E k \in 1..3 : SelectorShown /\ k <= Len(Val(locationOptions))
                        /\ handleLocationSelection(Val(locationOptions)[k])
  \/ SelectorClose
  \/ \E details \in RefineDetails : handleRefineLocationSubmit(details)
  \/ \E op \in pending, random \in RandomCoords : RefineResolved(op, random)
  \/ \E op \in pending : RefineRejected(op)
  \/ handleSkipRefinement
  \/ RefineClose
  \/ \E index \in ClickedDays : DayCardClick(index)
  \/ HourlyClose
  \/ Tick

Spec == Init /\ [][Next]_vars

(***************************************************************************)
(* The page when every outstanding call completes                          *)
(***************************************************************************)
\* what completes an outstanding call: a callback of getCurrentPosition, the
\* resolution or the rejection of an awaited promise
Completion ==
  \/ \E op \in pending, position \in Positions : GeolocationSuccess(op, position)
  \/ \E op \in pending, code \in ErrorCodes : GeolocationError(op, code)
  \/ \E op \in pending : GeocodeRejected(op)
  \/ \E op \in pending, random \in RandomCoords : GeocodeResolved(op, random)
  \/ \E op \in pending : RefineRejected(op)
  \/ \E op \in pending, random \in RandomCoords : RefineResolved(op, random)
  \/ \E op \in pending : FetchRejected(op)
  \/ \E op \in pending : FetchResolved(op)

\* React runs the mount effect after the first render; the timers of the
\* services fire and the browser answers getCurrentPosition.  The user and the
\* clock are not obliged to do anything.
FairSpec == Init /\ [][Next]_vars /\ WF_vars(Mount) /\ WF_vars(Completion)

(***************************************************************************)
(* The page with both dialogs on screen                                    *)
(***************************************************************************)
\* Geolocation failed at the mount, so the list of the default city is shown;
\* the user then submitted a city the registry does not know, so the
\* refinement dialog is open as well.  Nothing is in flight.
OpenDialogsInit ==
  /\ activeDisplayLocation = Null /\ currentWeather = Null
  /\ dailyForecasts = Null /\ rawHourlyForecasts = Null
  /\ loading = FALSE /\ error = Null
  /\ selectedDayForecast = Null /\ selectedDateForHourly = Null
  /\ displayableHourlyForecasts = Null
  /\ loadingHourly = FALSE /\ errorHourly = Null
  /\ \E random \in RandomCoords :
       /\ locationOptions = Some(geocodeCity(TextQuery(sLondon), random))
       /\ fallbackLocationForRefine = Some(geocodeCity(TextQuery(sYork), random)[1])
  /\ cityForDialog = sYork
  /\ refineDialogOpen = TRUE /\ cityToRefine = Some(sYork)
  /\ pending = {}
  /\ now \in StartInstants /\ ticks = 0
  /\ systemTz \in SystemTimezones
  /\ geolocation = TRUE
  /\ mounted = TRUE
  /\ lastIntent = 0 /\ activeIntent = 0
  /\ event = [name |-> "render"]
  /\ call = NoCall

\* what the user types into LocationInput while the dialogs are on screen
DialogCities == {sYork, sUnknown}

\* the intents of LocationInput and of the two dialogs, and the completions
OpenDialogsNext ==
  \/ \E city \in DialogCities : CitySubmit(city)
  \/ \E op \in pending, random \in RandomCoords : GeocodeResolved(op, random)
  \/ \E op \in pending : GeocodeRejected(op)
  \/ \E k \in 1..3 : SelectorShown /\ k <= Len(Val(locationOptions))
                        /\ handleLocationSelection(Val(locationOptions)[k])
  \/ SelectorClose
  \/ \E details \in RefineDetails : handleRefineLocationSubmit(details)
  \/ \E op \in pending, random \in RandomCoords : RefineResolved(op, random)
  \/ \E op \in pending : RefineRejected(op)
  \/ handleSkipRefinement
  \/ RefineClose
  \/ \E op \in pending : FetchResolved(op)
  \/ \E op \in pending : FetchRejected(op)

OpenDialogsSpec == OpenDialogsInit /\ [][OpenDialogsNext]_vars

(***************************************************************************)
(* The services and handleCitySubmit called on their own                   *)
(***************************************************************************)
\* how long a typed text over TextChars is
MaxTextLen == 3
\* how many values Math.random() takes: k / RandomSteps for k in 0 ..
\* RandomSteps - 1
RandomSteps == 4

\* the characters of the short texts: a blank, a lower-case and an upper-case
\* letter
TextChars == {" ", "a", "U"}
ShortTexts == UNION {[1..n -> TextChars] : n \in 0..MaxTextLen}
\* the registry's names and "Unknown" in several letter cases, and names the
\* registry does not know
NamedTexts ==
  { sLondon, toLowerCase(sLondon), toUpperCase(sLondon),
    <<"l","O","n","D","o","N">>,
    sParis, toLowerCase(sParis), sTokyo, sNewYork, toUpperCase(sNewYork),
    sSpringfield,
    sUnknown, toLowerCase(sUnknown), toUpperCase(sUnknown),
    sYork, <<" ">> \o sParis, sLondon \o <<" ">>, sUnknown \o <<" ">> }
Texts == ShortTexts \cup NamedTexts
Queries == {TextQuery(text) : text \in Texts} \cup RefineDetails
\* what toTitleCase is given: short texts, and the names and regions of the
\* registry and of the fallback of reverseGeocode
TitleInputs ==
  ShortTexts \cup
  { <<"N","Y">>, <<"O","N">>, <<"n","y">>, sNewYork, toUpperCase(sNewYork), sTokyo,
    sIleDeFrance, sEngland, sCurrentState }
\* the coordinates a bundle is asked for: London (England), Tokyo, a position
\* away from the registry
BundleCoords ==
  { [lat |-> 515074, lng |-> 1278], [lat |-> 356895, lng |-> 1396917],
    [lat |-> 0, lng |-> 0] }
\* the browser's timezone and the instant of the call: a zone without summer
\* time late in the evening, and Alaska in the hour before and in the hour
\* after its clocks are set back
ServiceClocks ==
  { [systemTz |-> "UTC", now |-> 47],
    [systemTz |-> "America/Anchorage", now |-> 9],
    [systemTz |-> "America/Anchorage", now |-> 10] }
Draws == 0..(RandomSteps - 1)

\* Temperatures before rounding are counted in 1/RandomSteps of a degree, so
\* that c * Math.random() is c * k.  Math.round rounds a half up.
round(x) == (2 * x + RandomSteps) \div (2 * RandomSteps)
\* Math.floor
floor(x) == x \div RandomSteps

\* const baseTemp = 5 + Math.random() * 20
baseTemp(k) == 5 * RandomSteps + 20 * k

\* a variant without the margin of two degrees, and whose correction may
\* subtract nothing (C16 rules it out)
dailyLowHighNoMargin(base, kDay, kLow, kHigh, kGap) ==
  LET dayBaseTemp == base + (6 * kDay - 3 * RandomSteps)
      low == round(dayBaseTemp - 5 * kLow)
      high == round(dayBaseTemp + 5 * kHigh)
  IN [high |-> high,
      low |-> IF low >= high THEN high - floor(3 * kGap) ELSE low]

\* the temperatures of one DailyForecast: the body of the first loop of
\* fetchOpenWeatherDataBundle, the k being its four random draws
dailyLowHigh(base, kDay, kLow, kHigh, kGap) ==
  LET dayBaseTemp == base + (6 * kDay - 3 * RandomSteps)
      low == round(dayBaseTemp - 2 * RandomSteps - 5 * kLow)
      high == round(dayBaseTemp + 2 * RandomSteps + 5 * kHigh)
  IN [high |-> high,
      low |-> IF low >= high THEN high - floor(RandomSteps + 3 * kGap) ELSE low]

\* the search for dayMatch in the second loop: the index of the first daily
\* forecast whose year, month and day of the month are those of hourDateTime,
\* 0 when there is none (dayMatch stays undefined)
dayMatch(daily, hourDateTime) ==
  LET same == {d \in 1..Len(daily) : getDate(daily[d].date) = getDate(hourDateTime)}
  IN IF same = {} THEN 0 ELSE CHOOSE d \in same : \A e \in same : d <= e

\* Math.floor(Math.random() * 30): the minute of a sunrise or of a sunset
minuteOf(k) == floor(30 * k)

\* formatInTimeZone(new Date(year, month, day, hour, minute), timezone, 'HH:mm')
\* where year, month and day are those of forecastDate: the Date constructor
\* reads the hour on the browser's clock, the label shows it on the location's.
\* Offsets are whole hours, so the minute is the same on both.
sunLabel(forecastDate, hour, minute, timezone) ==
  [hour |-> formatHour(utc(getDate(forecastDate) * 24 + hour), timezone),
   minute |-> minute]

\* the page at rest: geolocation failed at the mount, the list of the default
\* city was shown and the user closed it
ServiceInit ==
  /\ activeDisplayLocation = Null /\ currentWeather = Null
  /\ dailyForecasts = Null /\ rawHourlyForecasts = Null
  /\ loading = FALSE /\ error = Null
  /\ selectedDayForecast = Null /\ selectedDateForHourly = Null
  /\ displayableHourlyForecasts = Null
  /\ loadingHourly = FALSE /\ errorHourly = Null
  /\ locationOptions = Null /\ cityForDialog = sLondon
  /\ refineDialogOpen = FALSE /\ cityToRefine = Null /\ fallbackLocationForRefine = Null
  /\ pending = {}
  /\ \E clock \in ServiceClocks : now = clock.now /\ systemTz = clock.systemTz
  /\ ticks = 0
  /\ geolocation = TRUE
  /\ mounted = TRUE
  /\ lastIntent = 0 /\ activeIntent = 0
  /\ event = [name |-> "selectorClose", toasts |-> <<>>]
  /\ call = NoCall

pageVars == <<weatherVars, loading, error, hourlyVars, dialogVars, pending, envVars,
              lastIntent, activeIntent, event>>

\* toTitleCase(str)
CallToTitleCase(str) ==
  /\ call = NoCall
  /\ call' = [fn |-> "toTitleCase", str |-> str, result |-> toTitleCase(str)]
  /\ UNCHANGED pageVars

\* geocodeCity(query)
CallGeocodeCity(query, random) ==
  /\ call = NoCall
  /\ call' = [fn |-> "geocodeCity", query |-> query, random |-> random,
              result |-> geocodeCity(query, random)]
  /\ UNCHANGED pageVars

\* reverseGeocode at the coordinate of a candidate geocodeCity has returned
CallReverseGeocode(k) ==
  /\ call.fn = "geocodeCity" /\ k \in 1..Len(call.result)
  /\ LET candidate == call.result[k]
         coords == [lat |-> candidate.lat, lng |-> candidate.lng]
     IN call' = [fn |-> "reverseGeocode", of |-> candidate, coords |-> coords,
                 result |-> reverseGeocode(coords)]
  /\ UNCHANGED pageVars

\* fetchOpenWeatherDataBundle(coords); of the temperatures of an hourly record
\* the call keeps which daily forecast they were derived from
CallFetchOpenWeatherDataBundle(coords) ==
  /\ call = NoCall
  /\ LET bundle == fetchOpenWeatherDataBundle(coords)
     IN call' = [fn |-> "fetchOpenWeatherDataBundle", coords |-> coords, at |-> now,
                 result |-> bundle,
                 dayMatch |-> [i \in 1..Len(bundle.hourly) |->
                                 dayMatch(bundle.daily, bundle.hourly[i].dateTime)]]
  /\ UNCHANGED pageVars

\* one pass of the loop that builds the daily forecasts
CallDailyLowHigh(kBase, kDay, kLow, kHigh, kGap) ==
  /\ call = NoCall
  /\ call' = [fn |-> "dailyLowHigh", baseTemp |-> baseTemp(kBase),
              draws |-> <<kBase, kDay, kLow, kHigh, kGap>>,
              result |-> dailyLowHigh(baseTemp(kBase), kDay, kLow, kHigh, kGap)]
  /\ UNCHANGED pageVars

\* the sunrise and sunset labels of the i-th DailyForecast of the bundle for
\* coords, kRise and kSet being the two random draws of the minutes
CallSunriseSunset(coords, i, kRise, kSet) ==
  /\ call = NoCall
  /\ LET timezone == reverseGeocode(coords).timezone
         forecastDate == setDate(now, getDate(now) + (i - 1))
     IN call' = [fn |-> "sunriseSunset", coords |-> coords, timezone |-> timezone,
                 date |-> forecastDate,
                 sunrise |-> sunLabel(forecastDate, 6, minuteOf(kRise), timezone),
                 sunset |-> sunLabel(forecastDate, 20, minuteOf(kSet), timezone)]
  /\ UNCHANGED pageVars

\* handleCitySubmit(city), up to its await
CallHandleCitySubmit(city) ==
  /\ call = NoCall /\ pending = {}
  /\ call' = [fn |-> "handleCitySubmit", city |-> city]
  /\ lastIntent' = lastIntent + 1
  /\ handleCitySubmitStart(city, lastIntent + 1)
  /\ pending' = pending \cup
       {GeocodeOp("handleCitySubmit", TextQuery(city), Null, lastIntent + 1)}
  /\ event' = [name |-> "handleCitySubmit", city |-> city, toasts |-> <<>>]
  /\ UNCHANGED envVars

\* handleDayCardClick(dayForecast, dateClicked) for the i-th day from today,
\* once a submission of one of Cities has been dealt with: with a dataset it
\* is the click on a card, without one it is the handler called where no card
\* is rendered
CallHandleDayCardClick(i) ==
  /\ pending = {}
  /\ call.fn = "handleCitySubmit" /\ call.city \in Cities
  /\ LET date == setDate(now, getDate(now) + (i - 1))
     IN handleDayCardClick([date |-> date], date)

ServiceNext ==
  \/ \E str \in TitleInputs : CallToTitleCase(str)
  \/ \E query \in Queries, random \in RandomCoords : CallGeocodeCity(query, random)
  \/ \E k \in 1..3 : CallReverseGeocode(k)
  \/ \E coords \in BundleCoords : CallFetchOpenWeatherDataBundle(coords)
  \/ \E kBase, kDay, kLow, kHigh, kGap \in Draws :
        CallDailyLowHigh(kBase, kDay, kLow, kHigh, kGap)
  \/ \E coords \in BundleCoords, i \in 1..NUM_DAYS_FORECAST, kRise, kSet \in Draws :
        CallSunriseSunset(coords, i, kRise, kSet)
  \/ \E city \in Texts : CallHandleCitySubmit(city)
  \/ \E i \in ClickedDays : CallHandleDayCardClick(i)
  \/ \E op \in pending, random \in RandomCoords : GeocodeResolved(op, random)
  \/ \E op \in pending : GeocodeRejected(op)
  \/ \E op \in pending : FetchResolved(op)
  \/ \E op \in pending : FetchRejected(op)

ServiceSpec == ServiceInit /\ [][ServiceNext]_vars

(***************************************************************************)
(* Properties of the hourly window (handleDayCardClick)                    *)
(***************************************************************************)
\* the last step was a day click that filtered the stored hourly series
DayClickFiltered == event.name = "handleDayCardClick" /\ event.branch = "filter"
\* the timezone of the active location
ActiveTimezone == Val(activeDisplayLocation).timezone
\* the clicked date is the current calendar date in the location's timezone
ClickedIsTodayInLocation ==
  formatDate(event.dateClicked, ActiveTimezone) = formatDate(now, ActiveTimezone)
\* the stored records of the location's today after the location's current hour
HoursLeftToday ==
  LET Later(hourly) ==
        /\ formatDate(hourly.dateTime, ActiveTimezone) = formatDate(now, ActiveTimezone)
        /\ formatHour(hourly.dateTime, ActiveTimezone) > formatHour(now, ActiveTimezone)
  IN SelectSeq(Val(rawHourlyForecasts), Later)

\* C1: a click on the day that is today in the location's timezone shows
\* exactly the stored records of that day whose hour in the location's
\* timezone is strictly greater than the current hour there, in stored order,
\* whatever the timezone of the browser.
C1_TodayShowsHoursAfterCurrentLocationHour ==
  DayClickFiltered /\ ClickedIsTodayInLocation
    => displayableHourlyForecasts = Some(HoursLeftToday)

\* C2: a click treats the day as today if and only if the clicked date and the
\* current instant have the same calendar date in the location's timezone.
C2_TodayDecidedInLocationTimezone ==
  DayClickFiltered => (event.isToday <=> ClickedIsTodayInLocation)

\* C3: a click on a day of the bundle that is not today shows exactly 24
\* records, each of the clicked calendar date in the location's timezone.
C3_OtherDayShows24Records ==
  DayClickFiltered /\ ~ClickedIsTodayInLocation
    => /\ Len(Val(displayableHourlyForecasts)) = 24
       /\ \A k \in 1..Len(Val(displayableHourlyForecasts)) :
            formatDate(Val(displayableHourlyForecasts)[k].dateTime, ActiveTimezone)
              = formatDate(event.dateClicked, ActiveTimezone)

(***************************************************************************)
(* Properties of the orchestrator                                          *)
(***************************************************************************)
\* C4: a result that arrives after a newer location intent was issued never
\* overwrites what the newer intent set: once no operation is in flight, the
\* active location and dataset are those of the latest intent.
C4_LatestIntentWins ==
  pending = {} /\ activeDisplayLocation # Null => activeIntent = lastIntent

\* the last step was a failure of geolocation: not supported by the browser,
\* or the error callback of getCurrentPosition
GeolocationFailed ==
  \/ event.name = "handleGeolocate" /\ ~event.supported
  \/ event.name = "geolocationError"

\* C5: a failure of geolocation raises a notice, and triggers the resolution
\* of the default place exactly when no dataset was Ready at that moment.
C5_GeolocationFailureFallsBackIffNotReady ==
  GeolocationFailed => event.toasts # <<>> /\ (event.fallback <=> ~event.ready)

\* the last step completed the synthesis that call site via started
Synthesized(via) == event.name = "fetchResolved" /\ event.op.via = via
\* the active location has the coordinate and the name of candidate c
ActiveAt(c) ==
  /\ Val(activeDisplayLocation).lat = c.lat /\ Val(activeDisplayLocation).lng = c.lng
  /\ Val(activeDisplayLocation).name = c.name
\* intent n has a synthesis in flight, started by call site via for ref
SynthesisInFlight(n, via, ref) ==
  \E f \in pending : f.kind = "fetch" /\ f.intent = n /\ f.via = via /\ f.ref = ref

\* C6: a refinement submission whose re-query finds nothing, while a fallback
\* candidate is stored, does not report not-found: it starts a synthesis, and
\* when that completes the page is Ready with the typed city as the name, the
\* typed state and country where given, at the fallback candidate's coordinate.
C6_RefineWithoutMatchUsesTypedNames ==
  /\ event.name = "refineResolved" /\ Len(event.results) = 0
       /\ event.op.fallbackLocationForRefine # Null
     => /\ event.toasts = <<"Using Provided Details">>
        /\ loading
        /\ SynthesisInFlight(event.op.intent, "provided",
                             [details |-> event.op.query,
                              fallback |-> Val(event.op.fallbackLocationForRefine)])
  /\ Synthesized("provided")
     => LET details == event.op.ref.details
            fallback == event.op.ref.fallback
            active == Val(activeDisplayLocation)
        IN /\ Ready /\ error = Null
           /\ active.name = details.city
           /\ details.state # Undefined => active.county = details.state
           /\ details.country # Undefined => active.country = details.country
           /\ active.lat = fallback.lat /\ active.lng = fallback.lng
C6_TypedNamesShown == Synthesized("provided") /\ Ready

\* C7: a refinement submission whose re-query finds exactly one result starts
\* a synthesis for it, and when that completes the page is Ready at that
\* result's coordinate and name; when the re-query finds several results they
\* become the candidate list, which is shown, and no synthesis is started.
C7_RefineResultsRouted ==
  /\ event.name = "refineResolved" /\ Len(event.results) = 1
     => SynthesisInFlight(event.op.intent, "refined", event.results[1])
  /\ Synthesized("refined") => Ready /\ ActiveAt(event.op.ref)
  /\ event.name = "refineResolved" /\ Len(event.results) > 1
     => /\ locationOptions = Some(event.results) /\ SelectorShown /\ ~loading
        /\ \A f \in pending : f.intent # event.op.intent
C7_RefinedResultShown == Synthesized("refined") /\ Ready

\* C8: skipping the refinement starts a synthesis for the stored candidate
\* without a new geocoding query and leaves no refinement pending; when the
\* synthesis completes the page is Ready at that candidate's coordinate and name.
C8_SkipUsesStoredCandidate ==
  /\ event.name = "handleSkipRefinement"
     => /\ cityToRefine = Null /\ fallbackLocationForRefine = Null /\ ~refineDialogOpen
        /\ \A g \in pending : g.kind = "geocode" => g.intent # lastIntent
        /\ event.fallback # Null
           => SynthesisInFlight(lastIntent, "skip", Val(event.fallback))
  /\ Synthesized("skip") => Ready /\ ActiveAt(event.op.ref)
C8_StoredCandidateShown == Synthesized("skip") /\ Ready

\* C9: picking a candidate of the list clears the list and starts a synthesis
\* for it; when that completes the page is Ready with the coordinate, name,
\* region and country of the picked candidate.
C9_PickedCandidateShown ==
  /\ event.name = "handleLocationSelection"
     => /\ locationOptions = Null
        /\ SynthesisInFlight(lastIntent, "selection", event.selectedLocation)
  /\ Synthesized("selection")
     => /\ Ready /\ ActiveAt(event.op.ref)
        /\ Val(activeDisplayLocation).county = event.op.ref.state
        /\ Val(activeDisplayLocation).country = event.op.ref.country
C9_PickShown == Synthesized("selection") /\ Ready

\* C10: the candidate list is absent or has more than one element, and a step
\* that sets it is the completion of a geocoding or of a refinement re-query
\* whose result, of more than one candidate, it becomes.
C10_CandidateListHasSeveral ==
  /\ [](locationOptions = Null \/ Len(Val(locationOptions)) > 1)
  /\ [][locationOptions' # locationOptions /\ locationOptions' # Null
          => /\ event'.name \in {"geocodeResolved", "refineResolved"}
             /\ Len(event'.results) > 1
             /\ locationOptions' = Some(event'.results)]_vars
C10_CandidateListSet ==
  /\ event.name \in {"geocodeResolved", "refineResolved"}
  /\ locationOptions # Null /\ locationOptions = Some(event.results)

(***************************************************************************)
(* Properties of handleCitySubmit                                          *)
(***************************************************************************)
\* the last step was the completion of handleCitySubmit's geocoding
CityGeocoded == event.name = "geocodeResolved"
\* the text that was geocoded is s, in any letter case
QueryIs(s) == toLowerCase(event.op.query.city) = toLowerCase(s)
\* nothing of a dataset is stored
NoDataset ==
  /\ currentWeather = Null /\ dailyForecasts = Null /\ rawHourlyForecasts = Null

\* C11: geocodeCity returns an empty list for the text "Unknown" in any letter
\* case and for a text that is empty or only whitespace, and handleCitySubmit
\* then ends in NotFound: an error message is set, loading is false, and there
\* is no active location and no dataset.
C11_UnknownEndsInNotFound ==
  /\ CityGeocoded /\ (QueryIs(sUnknown) \/ trim(event.op.query.city) = <<>>)
     => Len(event.results) = 0
  /\ CityGeocoded /\ Len(event.results) = 0
     => /\ event.toasts = <<"Location Not Found">>
        /\ error # Null /\ ~loading
        /\ activeDisplayLocation = Null /\ NoDataset

\* the steps that handle a submitted "Paris": the submission, the completion
\* of its geocoding, the completion of its synthesis
ParisStep ==
  \/ event'.name = "handleCitySubmit" /\ toLowerCase(event'.city) = toLowerCase(sParis)
  \/ event'.name = "geocodeResolved" /\ toLowerCase(event'.op.query.city) = toLowerCase(sParis)
  \/ /\ event'.name = "fetchResolved" /\ event'.op.via = "single"
     /\ toLowerCase(event'.op.ref.city) = toLowerCase(sParis)

\* C12: for a submitted "Paris" geocodeCity returns exactly one candidate, with
\* state and country; handleCitySubmit starts the synthesis for it at once, and
\* when the synthesis completes the page is Ready at that candidate; none of
\* these steps opens the refinement dialog or the candidate list.
C12_ParisGoesStraightToReady ==
  /\ [](CityGeocoded /\ QueryIs(sParis)
          => /\ Len(event.results) = 1
             /\ event.results[1].state # Undefined /\ event.results[1].country # Undefined
             /\ event.toasts = <<>> /\ loading
             /\ SynthesisInFlight(event.op.intent, "single", event.results[1]))
  /\ [](Synthesized("single") /\ toLowerCase(event.op.ref.city) = toLowerCase(sParis)
          => Ready /\ ActiveAt(event.op.ref))
  /\ [][ParisStep
          => /\ refineDialogOpen' => refineDialogOpen
             /\ locationOptions' = Null \/ locationOptions' = locationOptions
             /\ cityToRefine' = cityToRefine
             /\ fallbackLocationForRefine' = fallbackLocationForRefine]_vars
C12_ParisShown ==
  /\ Synthesized("single") /\ toLowerCase(event.op.ref.city) = toLowerCase(sParis)
  /\ Ready /\ Val(activeDisplayLocation).timezone = "Europe/Paris"

(***************************************************************************)
(* Properties of geocodeCity and reverseGeocode                            *)
(***************************************************************************)
\* the last call made on its own was geocodeCity with a text
TextGeocoded == call.fn = "geocodeCity" /\ call.query.kind = "text"
RegistryKeys == DOMAIN MOCK_LOCATIONS \cup DOMAIN MOCK_LOCATIONS_MULTI
\* the text is not "unknown" and matches no key of the registry
Unrecognized(text) ==
  /\ toLowerCase(text) # toLowerCase(sUnknown)
  /\ toLowerCase(text) \notin RegistryKeys
NonEmpty(text) == text # <<>>
NonBlank(text) == trim(text) # <<>>
\* exactly one candidate, with the default timezone and no state or country
OneSynthesized(results) ==
  /\ Len(results) = 1
  /\ results[1].timezone = "America/Los_Angeles"
  /\ results[1].state = Undefined /\ results[1].country = Undefined
\* for every unrecognized text that is Eligible, geocodeCity returns one
\* synthesized candidate, and handleCitySubmit opens the refinement with it as
\* the fallback instead of reporting not-found
UnrecognizedIsRefined(Eligible(_)) ==
  /\ TextGeocoded /\ Eligible(call.query.city) /\ Unrecognized(call.query.city)
     => OneSynthesized(call.result)
  /\ CityGeocoded /\ Eligible(event.op.query.city) /\ Unrecognized(event.op.query.city)
     => /\ OneSynthesized(event.results)
        /\ event.toasts = <<"Location May Be Ambiguous">>
        /\ error = Null /\ ~loading
        /\ RefineShown
        /\ cityToRefine = Some(event.op.query.city)
        /\ fallbackLocationForRefine = Some(event.results[1])

\* C13 as stated: for every text query that is non-empty, is not "unknown" and
\* matches no registry key, geocodeCity returns exactly one synthesized
\* candidate with the timezone America/Los_Angeles and no state or country,
\* and handleCitySubmit does not end in NotFound: it enters Refining with that
\* candidate stored as the fallback.
C13_NonEmptyUnrecognizedIsRefined == UnrecognizedIsRefined(NonEmpty)

\* C13, amended: the same for every text query that is not blank (not empty
\* once trimmed); a text of blanks only is answered like the empty text, with
\* the empty list.
C13_NonBlankUnrecognizedIsRefined == UnrecognizedIsRefined(NonBlank)
C13_Refining ==
  /\ CityGeocoded /\ NonBlank(event.op.query.city) /\ Unrecognized(event.op.query.city)
  /\ RefineShown /\ fallbackLocationForRefine # Null

\* C14: geocodeCity with the text "London", in any letter case, returns exactly
\* 3 candidates, whose timezones are pairwise distinct and are Europe/London,
\* America/Toronto and America/New_York.
C14_LondonHasThreeCandidates ==
  TextGeocoded /\ toLowerCase(call.query.city) = toLowerCase(sLondon)
    => /\ Len(call.result) = 3
       /\ \A i, j \in 1..3 : i # j => call.result[i].timezone # call.result[j].timezone
       /\ {call.result[i].timezone : i \in 1..3}
            = {"Europe/London", "America/Toronto", "America/New_York"}
C14_LondonInCapitals ==
  /\ TextGeocoded /\ call.query.city = toUpperCase(sLondon)
  /\ Len(call.result) = 3

\* every entry of the registry, as geocodeCity returns it
RegisteredPlaces ==
  {processMockResult(MOCK_LOCATIONS[key]) : key \in DOMAIN MOCK_LOCATIONS}
    \cup UNION { {processMockResult(MOCK_LOCATIONS_MULTI[key][i]) :
                    i \in 1..Len(MOCK_LOCATIONS_MULTI[key])} :
                 key \in DOMAIN MOCK_LOCATIONS_MULTI }

\* C15: for every registered place, reverseGeocode at the coordinate that
\* geocodeCity returns for it yields a location with the timezone of that place.
C15_RoundTripKeepsTimezone ==
  call.fn = "reverseGeocode" /\ call.of \in RegisteredPlaces
    => call.result.timezone = call.of.timezone
C15_SpringfieldRoundTrip ==
  /\ call.fn = "reverseGeocode" /\ call.of \in RegisteredPlaces
  /\ call.of.city = sSpringfield /\ call.of.timezone = "America/New_York"
  /\ call.result.timezone = "America/New_York"

\* the title case the claim describes: a word of at most two characters that
\* is all upper case stays as it is; of every other word the first letter is
\* upper-cased and the rest lower-cased
ClaimedTitleWord(word) ==
  IF Len(word) = 0 THEN <<>>
  ELSE IF Len(word) <= 2 /\ word = toUpperCase(word) THEN word
  ELSE <<UpperChar(word[1])>> \o toLowerCase(SubSeq(word, 2, Len(word)))
ClaimedTitleCase(str) ==
  IF str = Undefined THEN Undefined
  ELSE LET ws == split(str) IN join([i \in 1..Len(ws) |-> ClaimedTitleWord(ws[i])])
\* the entries of the registry
RegistryEntries ==
  {MOCK_LOCATIONS[key] : key \in DOMAIN MOCK_LOCATIONS}
    \cup UNION { {MOCK_LOCATIONS_MULTI[key][i] : i \in 1..Len(MOCK_LOCATIONS_MULTI[key])} :
                 key \in DOMAIN MOCK_LOCATIONS_MULTI }
\* location loc is entry of the registry with its name and region in the
\* claimed title case and its country in upper case
NormalizedEntry(loc) ==
  \E entry \in RegistryEntries :
    /\ loc.lat = entry.lat /\ loc.lng = entry.lng /\ loc.timezone = entry.timezone
    /\ loc.name = ClaimedTitleCase(entry.city)
    /\ loc.state = ClaimedTitleCase(entry.state)
    /\ loc.country = toUpperCase(entry.country)

\* C24: toTitleCase leaves a word of at most two characters that is all upper
\* case unchanged ("NY" stays "NY"), and upper-cases the first letter and
\* lower-cases the rest of every other word; geocodeCity and reverseGeocode
\* return names and regions in that form and countries in upper case.
C24_TitleCaseKeepsShortUpperCaseWords ==
  /\ call.fn = "toTitleCase" => call.result = ClaimedTitleCase(call.str)
  /\ call.fn = "geocodeCity" /\ toLowerCase(call.query.city) \in RegistryKeys
     => \A k \in 1..Len(call.result) : NormalizedEntry(call.result[k])
  /\ TextGeocoded /\ NonBlank(call.query.city) /\ Unrecognized(call.query.city)
     => \A k \in 1..Len(call.result) :
          call.result[k].name = ClaimedTitleCase(call.query.city)
  /\ call.fn = "reverseGeocode" /\ call.of \in RegisteredPlaces
     => NormalizedEntry(call.result)

(***************************************************************************)
(* Properties of fetchOpenWeatherDataBundle                                *)
(***************************************************************************)
\* the last call made on its own was fetchOpenWeatherDataBundle
BundleFetched == call.fn = "fetchOpenWeatherDataBundle"

\* C16: every DailyForecast that fetchOpenWeatherDataBundle produces has its
\* low temperature strictly below its high temperature, whatever the base
\* temperature and the random draws.
C16_LowBelowHigh ==
  call.fn = "dailyLowHigh" => call.result.low < call.result.high
\* the draws that bring the two closest: nothing is subtracted from the low,
\* nothing added to the high
C16_ClosestDraws ==
  /\ call.fn = "dailyLowHigh" /\ call.draws[3] = 0 /\ call.draws[4] = 0
  /\ call.result.high - call.result.low = 4

\* C17: every hourly series that fetchOpenWeatherDataBundle produces has
\* NUM_DAYS_FORECAST * 24 = 240 records; the first is of the current hour at
\* the time of the call, and each next one is exactly one hour later.
C17_HourlySeriesIsHourByHour ==
  BundleFetched
    => LET hourly == call.result.hourly
       IN /\ Len(hourly) = NUM_DAYS_FORECAST * 24
          /\ hourly[1].dateTime = call.at
          /\ \A i \in 1..(Len(hourly) - 1) :
               hourly[i + 1].dateTime = hourly[i].dateTime + 1

\* C20: the temperature of each hourly record is derived from the daily
\* forecast whose calendar date, in the timezone of the location, is that of
\* the record.
C20_HourlyDerivedFromDayOfLocationDate ==
  BundleFetched
    => LET bundle == call.result
           SameDate(i) ==
             {d \in 1..Len(bundle.daily) :
                formatDate(bundle.daily[d].date, bundle.timezone)
                  = formatDate(bundle.hourly[i].dateTime, bundle.timezone)}
       IN \A i \in 1..Len(bundle.hourly) :
            SameDate(i) # {} => call.dayMatch[i] \in SameDate(i)

\* C21: in a bundle every one of the 240 hourly records has a matching daily
\* forecast among the 10, so that the fallback to the global curve is never
\* used, whatever the hour of the day at which the bundle is generated.
C21_EveryHourHasItsDay ==
  BundleFetched
    => \A i \in 1..Len(call.result.hourly) : call.dayMatch[i] # 0

\* C22: for every daily forecast the sunrise label is within 06:00-06:29 and
\* the sunset label within 20:00-20:29, read in the timezone of the location,
\* so that the sunrise is earlier than the sunset, whatever the timezone of the
\* browser.
C22_SunriseInMorningSunsetInEvening ==
  call.fn = "sunriseSunset"
    => /\ call.sunrise.hour = 6 /\ call.sunrise.minute \in 0..29
       /\ call.sunset.hour = 20 /\ call.sunset.minute \in 0..29
       /\ 60 * call.sunrise.hour + call.sunrise.minute
            < 60 * call.sunset.hour + call.sunset.minute

(***************************************************************************)
(* Properties of fetchWeatherData                                          *)
(***************************************************************************)
\* C19: when fetchOpenWeatherDataBundle fails, fetchWeatherData ends with the
\* failure in the error status (error is set and loading is false) and with
\* the active location and the dataset cleared.
C19_SynthesisFailureSurfaced ==
  event.name = "fetchRejected"
    => /\ error # Null /\ ~loading
       /\ activeDisplayLocation = Null /\ NoDataset

\* C18: whenever loading is false, the active location, the current
\* conditions, the daily list and the stored hourly series are all absent, or
\* all present and of one bundle (the timezone of the active location is that
\* of the current conditions); no failure leaves only some of them updated.
C18_DatasetWholeOrAbsent ==
  ~loading
    => \/ activeDisplayLocation = Null /\ NoDataset
       \/ /\ activeDisplayLocation # Null /\ currentWeather # Null
          /\ dailyForecasts # Null /\ rawHourlyForecasts # Null
          /\ Val(activeDisplayLocation).timezone = Val(currentWeather).timezone

(***************************************************************************)
(* Properties of handleDayCardClick as a handler                           *)
(***************************************************************************)
\* the step is a call of handleDayCardClick
DayClickStep == event'.name = "handleDayCardClick"
\* the stored hourly series or the active location is missing
SeriesOrLocationMissing == rawHourlyForecasts = Null \/ activeDisplayLocation = Null
\* the step leaves the dataset, loading and error as they are, and if it is
\* one of Clicks made while the series or the location is missing, it sets the
\* error of the hourly view and shows no records
DayClickLeavesDatasetAlone(Clicks) ==
  DayClickStep
    => /\ UNCHANGED <<weatherVars, loading, error>>
       /\ Clicks /\ SeriesOrLocationMissing
          => errorHourly' # Null /\ displayableHourlyForecasts' = Null

\* C23 as stated: handleDayCardClick never changes the active location, the
\* current conditions, the daily list, the stored hourly series, loading or
\* error; when the stored series or the active location is missing it sets the
\* error of the hourly view.
C23_DayClickLeavesDatasetAlone == [][DayClickLeavesDatasetAlone(TRUE)]_vars

\* C23, amended: the same, the error being set by every click that selects a
\* day; a click on the day that is already selected closes the selection and
\* clears that error, also while the series or the location is missing.
C23_SelectingClickLeavesDatasetAlone ==
  [][DayClickLeavesDatasetAlone(selectedDateForHourly' # Null)]_vars
C23_HourlyWindowUnavailable ==
  /\ event.name = "handleDayCardClick" /\ SeriesOrLocationMissing
  /\ selectedDateForHourly # Null /\ errorHourly # Null
  /\ activeDisplayLocation = Null /\ NoDataset

(***************************************************************************)
(* Properties of the page when every outstanding call completes            *)
(***************************************************************************)
\* the page shows the weather of London, GB
ReadyLondonGB ==
  /\ Ready
  /\ Val(activeDisplayLocation).name = sLondon
  /\ Val(activeDisplayLocation).country = <<"G","B">>

\* a call of the services has failed
CallFailed == event.name \in {"geocodeRejected", "refineRejected", "fetchRejected"}

\* C25: when the geolocation request fails and no location is active, the
\* default place is loaded: unless the user issues a further intent or a call
\* of the services fails, the page eventually is Ready and shows the weather
\* of London, GB.
C25_DefaultPlaceIsShown ==
  \A n \in 1..(MaxIntents + 1) :
    (event.name = "geolocationError" /\ activeDisplayLocation = Null /\ lastIntent = n)
      ~> (ReadyLondonGB \/ lastIntent # n \/ CallFailed)

\* C27: provided every outstanding geocoding, geolocation and synthesis call
\* completes, the page does not stay in Resolving: from the first render,
\* where loading is true, and after every intent it eventually reaches a state
\* where loading is false, also when the browser has no geolocation.
C27_ResolvingEnds == loading ~> ~loading

(***************************************************************************)
(* Properties of handleGeolocate                                           *)
(***************************************************************************)
\* the step is the failure of geolocation request op, which was made while
\* a location was active
ActiveGeolocationFails(op) ==
  /\ op.kind = "geolocation" /\ op.activeDisplayLocation # Null
  /\ event'.name = "geolocationError" /\ op \notin pending'

\* C26: a geolocation request that fails while a dataset is Ready leaves the
\* location that was active and its dataset in place: the failure does not
\* destroy the result of a successful search.
C26_FailedGeolocationKeepsDataset ==
  [][/\ \A op \in pending :
          ActiveGeolocationFails(op)
            => /\ activeDisplayLocation' = op.activeDisplayLocation
               /\ currentWeather' # Null /\ dailyForecasts' # Null
               /\ rawHourlyForecasts' # Null
     /\ event'.name = "handleGeolocate" /\ ~event'.supported /\ Ready
          => Ready' /\ UNCHANGED weatherVars]_vars

(***************************************************************************)
(* Properties of the page as a whole                                       *)
(***************************************************************************)
\* C28: at most one of Disambiguating and Refining is active: the candidate
\* list and a pending refinement (cityToRefine, with its stored fallback) are
\* never both non-null.
C28_ListAndRefinementExclusive ==
  ~(locationOptions # Null /\ (cityToRefine # Null \/ fallbackLocationForRefine # Null))

\* the elements of a list
Elements(list) == {list[k] : k \in 1..Len(list)}

\* C29: whenever a filtered hourly list is displayed, each of its records is
\* of the stored hourly series and the selected day is of the current daily
\* list: the hourly view never shows hours of a bundle that has been replaced.
C29_HourlyViewIsOfStoredBundle ==
  displayableHourlyForecasts # Null
    => /\ rawHourlyForecasts # Null
       /\ Elements(Val(displayableHourlyForecasts)) \subseteq Elements(Val(rawHourlyForecasts))
       /\ selectedDayForecast # Null /\ dailyForecasts # Null
       /\ Val(selectedDayForecast) \in Elements(Val(dailyForecasts))

\* the geocoded candidate whose coordinate a completed synthesis was started
\* with
CandidateOf(op) == IF op.via = "provided" THEN op.ref.fallback ELSE op.ref

\* C30: whenever Ready is reached from a geocoded candidate (used directly,
\* picked from the list, kept by skipping or by the refinement that found
\* nothing), the timezone of the active location is the timezone geocodeCity
\* gave that candidate, also for a synthesized candidate with random
\* coordinates.
C30_ActiveTimezoneIsCandidates ==
  event.name = "fetchResolved" /\ event.op.via # "position"
    => /\ Ready
       /\ Val(activeDisplayLocation).timezone = CandidateOf(event.op).timezone
====
